---- MODULE Spec2Model ----
(***************************************************************************)
(* Model of two exercise solutions:                                        *)
(*   solutions/rust/grep/1/src/lib.rs      Flags::new, format_result, grep *)
(*   solutions/rust/list-ops/2/src/lib.rs  foldr, reverse                  *)
(* Strings are sequences of one-character strings, so that lower-casing,   *)
(* trimming, substring search and formatting are computed, not assumed.    *)
(***************************************************************************)
EXTENDS Integers, Sequences, FiniteSets, TLC

VARIABLES
    \* ---- grep(pattern, flags, files) ----
    pattern_arg,     \* the `pattern` parameter
    flags,           \* the `flags` parameter (a Flags value)
    files,           \* the `files` parameter
    pc,              \* position in grep: "start", "for", "while", "done"
    multiple_files,  \* local of grep
    results,         \* local of grep
    pattern,         \* local of grep (shadows the parameter)
    file_idx,        \* number of sources the for loop has taken
    buf,             \* local of the for body
    line_number,     \* local of the for body
    outcome,         \* what grep returned
    hist,            \* history: per opened source, what the reader yielded
    prov,            \* history: per result, the source and line it came from
    \* ---- Flags::new(flags) ----
    tokens,          \* the `flags` parameter of Flags::new
    tok_idx,         \* number of tokens the for loop has taken
    instance,        \* local of Flags::new
    fl_outcome,      \* what Flags::new did: running, returned or panicked
    \* ---- list-ops ----
    op,              \* which function is being run: "foldr" or "reverse"
    seq_in,          \* the items of the iterator passed in
    initial,         \* the `initial` parameter of foldr
    function,        \* the `function` parameter of foldr (a named combinator)
    iter,            \* items the iterator has not yielded yet
    acc,             \* local of foldr
    visited,         \* history: items handed to `function`, in call order
    out,             \* items collected from the iterator reverse returned
    pass,            \* 1: reverse(s) is being consumed, 2: reverse of its result
    first_out,       \* what the first reverse yielded in total
    lo_pc            \* "run" or "done"

grepVars == <<pattern_arg, flags, files, pc, multiple_files, results, pattern,
              file_idx, buf, line_number, outcome, hist, prov>>
flagVars == <<tokens, tok_idx, instance, fl_outcome>>
listVars == <<op, seq_in, initial, function, iter, acc, visited, out, pass,
              first_out, lo_pc>>
vars == <<grepVars, flagVars, listVars>>

(***************************************************************************)
(* Bounds of the model.                                                    *)
(***************************************************************************)
MaxFiles == 2        \* sources per run (scan specification)
MaxLines == 2        \* lines a source yields (scan specification)
MatchFiles == 2      \* sources per run (match specification)
MatchReads == 2      \* lines read in a whole run (match specification)
MaxTokens == 3       \* tokens handed to Flags::new
MaxSeqLen == 3       \* items of a list-ops sequence

(***************************************************************************)
(* Text helpers.                                                           *)
(***************************************************************************)
NL == "\n"

IsWhitespace(c) == c \in {" ", NL, "\t", "\r"}

LowerChar(c) ==
    CASE c = "A" -> "a"
      [] c = "B" -> "b"
      [] OTHER   -> c

\* str::to_lowercase, on the ASCII letters of the model
to_lowercase(s) == [i \in 1..Len(s) |-> LowerChar(s[i])]

\* str::trim_end: drop the longest all-whitespace suffix
RECURSIVE trim_end(_)
trim_end(s) ==
    IF s = <<>> THEN <<>>
    ELSE IF IsWhitespace(s[Len(s)]) THEN trim_end(SubSeq(s, 1, Len(s) - 1))
    ELSE s

\* A contains that only looks at the start of the haystack (str::starts_with)
contains_at_start(hay, needle) ==
    Len(needle) <= Len(hay) /\ SubSeq(hay, 1, Len(needle)) = needle

\* str::contains(&str): some window of the haystack equals the needle
contains(hay, needle) ==
    \E i \in 1..(Len(hay) - Len(needle) + 1) :
        SubSeq(hay, i, i + Len(needle) - 1) = needle

Digit(d) == <<"0", "1", "2", "3", "4", "5", "6", "7", "8", "9">>[d + 1]

\* Display of usize: decimal digits, most significant first
RECURSIVE to_decimal(_)
to_decimal(n) ==
    IF n < 10 THEN <<Digit(n)>>
    ELSE to_decimal(n \div 10) \o <<Digit(n % 10)>>

(***************************************************************************)
(* Flags and format_result.                                                *)
(***************************************************************************)
FlagsDefault ==
    [line_number |-> FALSE, files_with_matches |-> FALSE, ignore_case |-> FALSE,
     invert_match |-> FALSE, line_match |-> FALSE]

FlagsValues ==
    [line_number : BOOLEAN, files_with_matches : BOOLEAN, ignore_case : BOOLEAN,
     invert_match : BOOLEAN, line_match : BOOLEAN]

\* A format_result that prints the case-adjusted candidate, not the line
format_result_folded(file_path, line_no, line, fl, multiple) ==
    IF fl.files_with_matches THEN file_path
    ELSE LET file_path_prefix == IF multiple THEN file_path \o <<":">> ELSE <<>>
             line_number_infix ==
                 IF fl.line_number THEN to_decimal(line_no) \o <<":">> ELSE <<>>
         IN  file_path_prefix \o line_number_infix
             \o (IF fl.ignore_case THEN to_lowercase(line) ELSE line)

format_result(file_path, line_no, line, fl, multiple) ==
    IF fl.files_with_matches THEN file_path
    ELSE LET file_path_prefix == IF multiple THEN file_path \o <<":">> ELSE <<>>
             line_number_infix ==
                 IF fl.line_number THEN to_decimal(line_no) \o <<":">> ELSE <<>>
         IN  file_path_prefix \o line_number_infix \o line

\* lines 86-93: the stripped line and the case-adjusted candidate
StrippedLine(b) == trim_end(b)

Candidate(line, fl) == IF fl.ignore_case THEN to_lowercase(line) ELSE line

\* lines 94-100
is_match(candidate, pat, fl) ==
    IF fl.line_match THEN candidate = pat ELSE contains(candidate, pat)

\* line 101: invert_match ^ is_match
Keep(candidate, pat, fl) == fl.invert_match # is_match(candidate, pat, fl)

(***************************************************************************)
(* Inputs of the grep runs.                                                *)
(***************************************************************************)
\* Source names; the i-th source of a run is named FileName(i)
Names == << <<"f">>, <<"g">> >>

FileName(i) == Names[((i - 1) % Len(Names)) + 1]

FileList(n) == [i \in 1..n |-> FileName(i)]

\* Line contents (without the terminator) and patterns of the scan runs
ScanLines == { <<"a">>, <<"b">> }

ScanPatterns == { <<"a">>, <<>> }

\* Line contents and patterns of the match runs: case, blanks, sub-words
MatchLines ==
    { <<>>, <<"a", "b">>, <<"A", "b", " ">>, <<"b", "a", "B">>, <<"b", " ", "a">> }

MatchPatterns ==
    { <<>>, <<"a", "b">>, <<"A", "B">>, <<"b">>, <<"b", " ">>, <<"a", "b", " ">> }

Running == [kind |-> "Running", value |-> <<>>, error |-> "none"]

Ok(v) == [kind |-> "Ok", value |-> v, error |-> "none"]

\* Result::Err carries the error only
Err(e) == [kind |-> "Err", value |-> <<>>, error |-> e]

IdleFlags ==
    /\ tokens = <<>>
    /\ tok_idx = 0
    /\ instance = FlagsDefault
    /\ fl_outcome = [kind |-> "Idle", value |-> <<>>, message |-> <<>>]

IdleList ==
    /\ op = "none"
    /\ seq_in = <<>>
    /\ initial = 0
    /\ function = "none"
    /\ iter = <<>>
    /\ acc = 0
    /\ visited = <<>>
    /\ out = <<>>
    /\ pass = 0
    /\ first_out = <<>>
    /\ lo_pc = "done"

IdleGrep ==
    /\ pattern_arg = <<>>
    /\ flags = FlagsDefault
    /\ files = <<>>
    /\ pc = "done"
    /\ multiple_files = FALSE
    /\ results = <<>>
    /\ pattern = <<>>
    /\ file_idx = 0
    /\ buf = <<>>
    /\ line_number = 0
    /\ outcome = Running
    /\ hist = <<>>
    /\ prov = <<>>

InitGrep(patterns, maxFiles) ==
    /\ pattern_arg \in patterns
    /\ flags \in FlagsValues
    /\ \E n \in 0..maxFiles : files = FileList(n)
    /\ pc = "start"
    /\ multiple_files = FALSE
    /\ results = <<>>
    /\ pattern = <<>>
    /\ file_idx = 0
    /\ buf = <<>>
    /\ line_number = 0
    /\ outcome = Running
    /\ hist = <<>>
    /\ prov = <<>>

(***************************************************************************)
(* grep, lines 68-119.                                                     *)
(***************************************************************************)
\* lines 69-77
GrepStart ==
    /\ pc = "start"
    /\ multiple_files' = (Len(files) > 1)
    /\ results' = <<>>
    /\ pattern' = IF flags.ignore_case THEN to_lowercase(pattern_arg) ELSE pattern_arg
    /\ pc' = "for"
    /\ UNCHANGED <<pattern_arg, flags, files, file_idx, buf, line_number, outcome,
                   hist, prov>>

SourceEntry(name, end) == [name |-> name, lines |-> <<>>, end |-> end]

\* lines 78-82: the next source opens
OpenOk ==
    /\ pc = "for"
    /\ file_idx < Len(files)
    /\ file_idx' = file_idx + 1
    /\ buf' = <<>>
    /\ line_number' = 1
    /\ pc' = "while"
    /\ hist' = Append(hist, SourceEntry(files[file_idx + 1], "Reading"))
    /\ UNCHANGED <<pattern_arg, flags, files, multiple_files, results, pattern,
                   outcome, prov>>

\* An open failure that skips the source instead of returning
OpenFailSkipped ==
    /\ pc = "for"
    /\ file_idx < Len(files)
    /\ file_idx' = file_idx + 1
    /\ pc' = "for"
    /\ hist' = Append(hist, [name |-> files[file_idx + 1], lines |-> <<>>,
                              end |-> "OpenFailed"])
    /\ UNCHANGED <<pattern_arg, flags, files, multiple_files, results, pattern,
                   buf, line_number, outcome, prov>>

\* line 79: File::open(file_path)? returns the error out of grep
OpenFail ==
    /\ pc = "for"
    /\ file_idx < Len(files)
    /\ file_idx' = file_idx + 1
    /\ outcome' = Err("open")
    /\ pc' = "done"
    /\ hist' = Append(hist, SourceEntry(files[file_idx + 1], "OpenFailed"))
    /\ UNCHANGED <<pattern_arg, flags, files, multiple_files, results, pattern,
                   buf, line_number, prov>>

\* A push at the front of the vector
PushFront(rs, r) == <<r>> \o rs

\* results.push, line 102
PushResult(rs, r) == Append(rs, r)

\* A loop body without the break
NeverBreaks(fl) == FALSE

\* lines 109-112: leave the while loop after a kept line
BreaksAfterKeep(fl) == fl.files_with_matches

\* A counter that advances on kept lines only
CountKeptOnly(n, kept) == IF kept THEN n + 1 ELSE n

\* line 115
NextLineNumber(n, kept) == n + 1

CloseSource(h, end) == [h EXCEPT ![Len(h)].end = end]

RecordLine(h, raw, kept) ==
    [h EXCEPT ![Len(h)].lines = Append(@, [raw |-> raw, kept |-> kept])]

\* lines 83-116: read_line yields a line, then one pass through the loop body
ReadLineOk(pool, mayRead) ==
    /\ pc = "while"
    /\ mayRead
    /\ \E content \in pool :
        LET raw       == content \o <<NL>>
            buf1      == buf \o raw
            line      == StrippedLine(buf1)
            candidate == Candidate(line, flags)
            kept      == Keep(candidate, pattern, flags)
            stop      == kept /\ BreaksAfterKeep(flags)
            h1        == RecordLine(hist, raw, kept)
        IN  /\ results' =
                IF kept
                THEN PushResult(results,
                         format_result(files[file_idx], line_number, line, flags,
                                       multiple_files))
                ELSE results
            /\ prov' =
                IF kept
                THEN Append(prov,
                         [src |-> file_idx, pos |-> Len(hist[file_idx].lines) + 1,
                          num |-> line_number])
                ELSE prov
            /\ IF stop
               THEN /\ buf' = buf1
                    /\ line_number' = line_number
                    /\ pc' = "for"
                    /\ hist' = CloseSource(h1, "EarlyStop")
               ELSE /\ buf' = <<>>
                    /\ line_number' = NextLineNumber(line_number, kept)
                    /\ pc' = "while"
                    /\ hist' = h1
    /\ UNCHANGED <<pattern_arg, flags, files, multiple_files, pattern, file_idx,
                   outcome>>

\* lines 83-84: read_line yields Ok(0), the while condition fails
ReadEof ==
    /\ pc = "while"
    /\ pc' = "for"
    /\ hist' = CloseSource(hist, "Exhausted")
    /\ UNCHANGED <<pattern_arg, flags, files, multiple_files, results, pattern,
                   file_idx, buf, line_number, outcome, prov>>

\* line 83: read_line yields Err, `while let Ok(length)` does not match,
\* the loop ends and the for loop goes on
ReadErr ==
    /\ pc = "while"
    /\ pc' = "for"
    /\ hist' = CloseSource(hist, "ReadError")
    /\ UNCHANGED <<pattern_arg, flags, files, multiple_files, results, pattern,
                   file_idx, buf, line_number, outcome, prov>>

\* line 118
GrepReturn ==
    /\ pc = "for"
    /\ file_idx = Len(files)
    /\ outcome' = Ok(results)
    /\ pc' = "done"
    /\ UNCHANGED <<pattern_arg, flags, files, multiple_files, results, pattern,
                   file_idx, buf, line_number, hist, prov>>

\* Lines the reader has yielded so far
LinesOfCurrent == Len(hist[file_idx].lines)

RECURSIVE TotalLines(_)
TotalLines(h) ==
    IF h = <<>> THEN 0 ELSE Len(h[Len(h)].lines) + TotalLines(SubSeq(h, 1, Len(h) - 1))

ScanRead == ReadLineOk(ScanLines, LinesOfCurrent < MaxLines)

MatchRead == ReadLineOk(MatchLines, TotalLines(hist) < MatchReads)

Init == InitGrep(ScanPatterns, MaxFiles) /\ IdleFlags /\ IdleList

Next ==
    \/ GrepStart /\ UNCHANGED <<flagVars, listVars>>
    \/ OpenOk /\ UNCHANGED <<flagVars, listVars>>
    \/ OpenFail /\ UNCHANGED <<flagVars, listVars>>
    \/ ScanRead /\ UNCHANGED <<flagVars, listVars>>
    \/ ReadEof /\ UNCHANGED <<flagVars, listVars>>
    \/ ReadErr /\ UNCHANGED <<flagVars, listVars>>
    \/ GrepReturn /\ UNCHANGED <<flagVars, listVars>>

Spec == Init /\ [][Next]_vars

InitMatch == InitGrep(MatchPatterns, MatchFiles) /\ IdleFlags /\ IdleList

NextMatch ==
    \/ GrepStart /\ UNCHANGED <<flagVars, listVars>>
    \/ OpenOk /\ UNCHANGED <<flagVars, listVars>>
    \/ OpenFail /\ UNCHANGED <<flagVars, listVars>>
    \/ MatchRead /\ UNCHANGED <<flagVars, listVars>>
    \/ ReadEof /\ UNCHANGED <<flagVars, listVars>>
    \/ ReadErr /\ UNCHANGED <<flagVars, listVars>>
    \/ GrepReturn /\ UNCHANGED <<flagVars, listVars>>

SpecMatch == InitMatch /\ [][NextMatch]_vars

(***************************************************************************)
(* Flags::new, lines 23-38.                                                *)
(***************************************************************************)
RecognizedTokens == {"-n", "-l", "-i", "-v", "-x"}

TokenPool == RecognizedTokens \cup {"-z", "n"}

RECURSIVE SeqsUpTo(_, _)
SeqsUpTo(S, n) ==
    IF n = 0 THEN {<<>>}
    ELSE LET shorter == SeqsUpTo(S, n - 1)
         IN  shorter \cup {Append(q, x) : q \in {r \in shorter : Len(r) = n - 1}, x \in S}

FlagsRunning == [kind |-> "Running", value |-> <<>>, message |-> <<>>]

InitFlags ==
    /\ tokens \in SeqsUpTo(TokenPool, MaxTokens)
    /\ tok_idx = 0
    /\ instance = FlagsDefault
    /\ fl_outcome = FlagsRunning

\* Arms in which -x sets invert_match
SetFlagSwapped(inst, flag) ==
    CASE flag = "-n" -> [inst EXCEPT !.line_number = TRUE]
      [] flag = "-l" -> [inst EXCEPT !.files_with_matches = TRUE]
      [] flag = "-i" -> [inst EXCEPT !.ignore_case = TRUE]
      [] flag = "-v" -> [inst EXCEPT !.invert_match = TRUE]
      [] flag = "-x" -> [inst EXCEPT !.invert_match = TRUE]

\* the arms of the match, lines 29-33
SetFlag(inst, flag) ==
    CASE flag = "-n" -> [inst EXCEPT !.line_number = TRUE]
      [] flag = "-l" -> [inst EXCEPT !.files_with_matches = TRUE]
      [] flag = "-i" -> [inst EXCEPT !.ignore_case = TRUE]
      [] flag = "-v" -> [inst EXCEPT !.invert_match = TRUE]
      [] flag = "-x" -> [inst EXCEPT !.line_match = TRUE]

\* the patterns of the arms before `&_`
IsSupported(flag) == flag \in {"-n", "-l", "-i", "-v", "-x"}

\* lines 27-33: one pass through the for body, a recognized token
FlagsSet ==
    /\ fl_outcome.kind = "Running"
    /\ tok_idx < Len(tokens)
    /\ IsSupported(tokens[tok_idx + 1])
    /\ instance' = SetFlag(instance, tokens[tok_idx + 1])
    /\ tok_idx' = tok_idx + 1
    /\ UNCHANGED <<tokens, fl_outcome>>

\* line 34: panic!("Unsupported flag {flag}"); nothing is returned
FlagsPanic ==
    /\ fl_outcome.kind = "Running"
    /\ tok_idx < Len(tokens)
    /\ ~IsSupported(tokens[tok_idx + 1])
    /\ fl_outcome' = [kind |-> "Panicked", value |-> <<>>,
                      message |-> <<"Unsupported flag ", tokens[tok_idx + 1]>>]
    /\ tok_idx' = tok_idx + 1
    /\ UNCHANGED <<tokens, instance>>

\* line 37
FlagsReturn ==
    /\ fl_outcome.kind = "Running"
    /\ tok_idx = Len(tokens)
    /\ fl_outcome' = [kind |-> "Returned", value |-> <<instance>>, message |-> <<>>]
    /\ UNCHANGED <<tokens, tok_idx, instance>>

InitFlagsSpec == InitFlags /\ IdleGrep /\ IdleList

NextFlags ==
    \/ FlagsSet /\ UNCHANGED <<grepVars, listVars>>
    \/ FlagsPanic /\ UNCHANGED <<grepVars, listVars>>
    \/ FlagsReturn /\ UNCHANGED <<grepVars, listVars>>

SpecFlags == InitFlagsSpec /\ [][NextFlags]_vars

(***************************************************************************)
(* list-ops: foldr (lines 81-91) and reverse (lines 94-96).                *)
(***************************************************************************)
Items == {1, 2, 3}

Initials == {0, 1}

\* Combinators of type Fn(U, I::Item) -> U handed to foldr; neither commutes
Functions == {"sub", "shift"}

Apply(f, a, b) ==
    CASE f = "sub"   -> a - b
      [] f = "shift" -> a * 10 + b

\* Iterator::next in the place of next_back
next_front(it) == [item |-> it[1], rest |-> SubSeq(it, 2, Len(it))]

\* DoubleEndedIterator::next_back on a non-empty iterator: the last item,
\* and the iterator without it
next_back(it) == [item |-> it[Len(it)], rest |-> SubSeq(it, 1, Len(it) - 1)]

InitList ==
    /\ seq_in \in SeqsUpTo(Items, MaxSeqLen)
    /\ \/ op = "foldr" /\ initial \in Initials /\ function \in Functions
       \/ op = "reverse" /\ initial = 0 /\ function = "none"
    /\ iter = seq_in
    /\ acc = initial
    /\ visited = <<>>
    /\ out = <<>>
    /\ pass = 1
    /\ first_out = <<>>
    /\ lo_pc = "run"

\* A foldr that walks iter itself, not reverse(iter)
FoldrStepForward ==
    /\ op = "foldr"
    /\ lo_pc = "run"
    /\ iter # <<>>
    /\ acc' = Apply(function, acc, iter[1])
    /\ visited' = Append(visited, iter[1])
    /\ iter' = SubSeq(iter, 2, Len(iter))
    /\ UNCHANGED <<op, seq_in, initial, function, out, pass, first_out, lo_pc>>

\* lines 87-89: reverse(iter) yields an item, the for body runs
FoldrStep ==
    /\ op = "foldr"
    /\ lo_pc = "run"
    /\ iter # <<>>
    /\ acc' = Apply(function, acc, next_back(iter).item)
    /\ visited' = Append(visited, next_back(iter).item)
    /\ iter' = next_back(iter).rest
    /\ UNCHANGED <<op, seq_in, initial, function, out, pass, first_out, lo_pc>>

\* line 90: reverse(iter) yields None, acc is returned
FoldrReturn ==
    /\ op = "foldr"
    /\ lo_pc = "run"
    /\ iter = <<>>
    /\ lo_pc' = "done"
    /\ UNCHANGED <<op, seq_in, initial, function, iter, acc, visited, out, pass,
                   first_out>>

\* line 95: the closure yields iter.next_back(), the caller collects it
ReverseYield ==
    /\ op = "reverse"
    /\ lo_pc = "run"
    /\ iter # <<>>
    /\ out' = Append(out, next_back(iter).item)
    /\ iter' = next_back(iter).rest
    /\ UNCHANGED <<op, seq_in, initial, function, acc, visited, pass, first_out,
                   lo_pc>>

\* line 95: next_back() is None; the collected items are handed to reverse again
ReverseAgain ==
    /\ op = "reverse"
    /\ lo_pc = "run"
    /\ iter = <<>>
    /\ pass = 1
    /\ first_out' = out
    /\ iter' = out
    /\ out' = <<>>
    /\ pass' = 2
    /\ UNCHANGED <<op, seq_in, initial, function, acc, visited, lo_pc>>

\* line 95: next_back() is None in the second reverse
ReverseDone ==
    /\ op = "reverse"
    /\ lo_pc = "run"
    /\ iter = <<>>
    /\ pass = 2
    /\ lo_pc' = "done"
    /\ UNCHANGED <<op, seq_in, initial, function, iter, acc, visited, out, pass,
                   first_out>>

InitListSpec == InitList /\ IdleGrep /\ IdleFlags

NextList ==
    \/ FoldrStep /\ UNCHANGED <<grepVars, flagVars>>
    \/ FoldrReturn /\ UNCHANGED <<grepVars, flagVars>>
    \/ ReverseYield /\ UNCHANGED <<grepVars, flagVars>>
    \/ ReverseAgain /\ UNCHANGED <<grepVars, flagVars>>
    \/ ReverseDone /\ UNCHANGED <<grepVars, flagVars>>

SpecListOps == InitListSpec /\ [][NextList]_vars

(***************************************************************************)
(* Vocabulary of the properties, written from the statements and not from  *)
(* the operators of the model above.                                       *)
(***************************************************************************)
Rev(s) == [i \in 1..Len(s) |-> s[Len(s) + 1 - i]]

Range(s) == {s[i] : i \in 1..Len(s)}

\* The text a reader yielded, without its line terminator
WithoutNewline(raw) ==
    IF raw # <<>> /\ raw[Len(raw)] = NL THEN SubSeq(raw, 1, Len(raw) - 1) ELSE raw

\* The text a reader yielded, without any trailing whitespace: the prefix
\* that ends at the last character that is not whitespace
WithoutTrailingBlanks(raw) ==
    LET k == CHOOSE k \in 0..Len(raw) :
                 /\ \A i \in (k + 1)..Len(raw) : IsWhitespace(raw[i])
                 /\ k = 0 \/ ~IsWhitespace(raw[k])
    IN  SubSeq(raw, 1, k)

Folded(s) == [i \in 1..Len(s) |-> LowerChar(s[i])]

CaseAdjusted(s) == IF flags.ignore_case THEN Folded(s) ELSE s

\* q occurs in s as a contiguous run of characters
OccursIn(q, s) == \E a \in 0..Len(s) : \E b \in a..Len(s) : SubSeq(s, a + 1, b) = q

IsMatchOf(raw) ==
    LET l == CaseAdjusted(WithoutTrailingBlanks(raw))
        q == CaseAdjusted(pattern_arg)
    IN  IF flags.line_match THEN l = q ELSE OccursIn(q, l)

\* Every line read so far, as <<source index, position in the source>>
LinesRead ==
    UNION {{<<s, k>> : k \in 1..Len(hist[s].lines)} : s \in 1..Len(hist)}

KeptLines == {sk \in LinesRead : hist[sk[1]].lines[sk[2]].kept}

RawOf(sk) == hist[sk[1]].lines[sk[2]].raw

\* The form of a result for the line at position k of source named name
FormOf(name, k, text) ==
    IF flags.files_with_matches THEN name
    ELSE (IF Len(files) > 1 THEN name \o <<":">> ELSE <<>>)
         \o (IF flags.line_number THEN to_decimal(k) \o <<":">> ELSE <<>>)
         \o text

\* The kept lines of the history in source order, then line order
RECURSIVE KeptOfSource(_, _)
KeptOfSource(s, k) ==
    IF k > Len(hist[s].lines) THEN <<>>
    ELSE (IF hist[s].lines[k].kept THEN << <<s, k>> >> ELSE <<>>) \o KeptOfSource(s, k + 1)

RECURSIVE KeptInOrder(_)
KeptInOrder(s) ==
    IF s > Len(hist) THEN <<>> ELSE KeptOfSource(s, 1) \o KeptInOrder(s + 1)

(***************************************************************************)
(* The claims.                                                             *)
(***************************************************************************)

\* C1: every line read is kept (adds a result) iff invert_match XOR isMatch,
\* where isMatch compares the line without its trailing whitespace, lower-cased
\* together with the query only under ignore_case, for equality under
\* line_match and for containing the query otherwise.
C1_KeptIffInvertXorMatch ==
    /\ \A sk \in LinesRead :
           hist[sk[1]].lines[sk[2]].kept <=> (flags.invert_match # IsMatchOf(RawOf(sk)))
    /\ Len(results) = Cardinality(KeptLines)

\* C1 witness: under -i and -x the query "AB" keeps the line "Ab " and, in
\* the same run, drops the line "baB", which only contains the folded query
C1_Witness ==
    /\ flags.ignore_case /\ flags.line_match /\ ~flags.invert_match
    /\ pattern_arg = <<"A", "B">>
    /\ \E sk \in KeptLines : RawOf(sk) = <<"A", "b", " ", NL>>
    /\ \E sk \in LinesRead \ KeptLines : RawOf(sk) = <<"b", "a", "B", NL>>

\* C2 as stated: every result is the source name under -l, and otherwise
\* name + ":" (iff several sources), number + ":" (iff -n), then the line text
\* with only its newline removed.
C2_ResultFormNewlineStripped ==
    /\ Len(results) = Len(prov)
    /\ \A i \in 1..Len(prov) :
           LET sk == <<prov[i].src, prov[i].pos>>
           IN  results[i] = FormOf(files[sk[1]], sk[2], WithoutNewline(RawOf(sk)))

\* C2 amended: the same form, the line text being the text read with the
\* newline and all other trailing whitespace removed, in its original case.
C2_ResultForm ==
    /\ Len(results) = Len(prov)
    /\ \A i \in 1..Len(prov) :
           LET sk == <<prov[i].src, prov[i].pos>>
           IN  results[i] = FormOf(files[sk[1]], sk[2], WithoutTrailingBlanks(RawOf(sk)))

\* C2 witness: two sources, -n and -i, the second line of source g is "Ab "
\* and comes out as g:2:Ab
C2_Witness ==
    /\ flags.ignore_case /\ flags.line_number /\ ~flags.files_with_matches
    /\ \E i \in 1..Len(results) :
           /\ results[i] = <<"g", ":", "2", ":", "A", "b">>
           /\ RawOf(<<prov[i].src, prov[i].pos>>) = <<"A", "b", " ", NL>>

\* C3: under -l a source contributes at most one result, its kept line is the
\* last line read from it and ends the scan of that source in EarlyStop; a
\* source without a kept line contributes nothing. EarlyStop occurs only so.
C3_OnlyMatchingFilesStopsEarly ==
    \A s \in 1..Len(hist) :
        LET kept == {sk \in KeptLines : sk[1] = s}
            mine == {i \in 1..Len(prov) : prov[i].src = s}
        IN  /\ hist[s].end = "EarlyStop" =>
                   flags.files_with_matches /\ kept # {} /\ ~(pc = "while" /\ s = file_idx)
            /\ flags.files_with_matches =>
                   /\ Cardinality(mine) <= 1
                   /\ Cardinality(mine) = Cardinality(kept)
                   /\ \A sk \in kept :
                          sk[2] = Len(hist[s].lines) /\ hist[s].end = "EarlyStop"

\* C3 witness: -l with -v; the first source stopped early on its second line
\* after a line that was not kept, and the scan went on to the next source
C3_Witness ==
    /\ flags.files_with_matches /\ flags.invert_match
    /\ Len(hist) = 2
    /\ hist[1].end = "EarlyStop"
    /\ Len(hist[1].lines) = 2
    /\ ~hist[1].lines[1].kept
    /\ hist[2].end = "Exhausted"
    /\ results = << <<"f">> >>

\* C4: the results are those of the kept lines in the order of the sources
\* given and, within a source, of its lines; a successful run returns exactly
\* that sequence, empty when no line was kept.
C4_ResultsInInputOrder ==
    LET order == KeptInOrder(1)
    IN  /\ \A s \in 1..Len(hist) : hist[s].name = files[s]
        /\ Len(results) = Len(order)
        /\ \A i \in 1..Len(order) :
               results[i] = FormOf(files[order[i][1]], order[i][2],
                                   WithoutTrailingBlanks(RawOf(order[i])))
        /\ \A i \in 1..Len(prov) : <<prov[i].src, prov[i].pos>> = order[i]
        /\ outcome.kind = "Ok" =>
               /\ outcome.value = results
               /\ Len(hist) = Len(files)
               /\ (KeptLines = {} => outcome.value = <<>>)

\* C4 witness: a successful run over two sources of two lines each returned
\* f:1:a, g:1:a, g:2:a, the second line of f not being kept
C4_Witness ==
    /\ outcome.kind = "Ok"
    /\ outcome.value = << <<"f", ":", "1", ":", "a">>, <<"g", ":", "1", ":", "a">>,
                          <<"g", ":", "2", ":", "a">> >>
    /\ Len(hist[1].lines) = 2

\* C5: when a source cannot be opened the run is over with an error, no
\* later source was opened, and nothing of the results is returned.
C5_OpenFailureAborts ==
    \A s \in 1..Len(hist) :
        hist[s].end = "OpenFailed" =>
            /\ s = Len(hist)
            /\ pc = "done"
            /\ outcome.kind = "Err"
            /\ outcome.value = <<>>

\* C5 witness: the second source fails to open after the first gave results
C5_Witness ==
    /\ Len(hist) = 2
    /\ hist[2].end = "OpenFailed"
    /\ results # <<>>

\* C6 as stated: after a failed read of an opened source no further source
\* is opened and the run never returns a successful result list.
C6_ReadFailureAborts ==
    \A s \in 1..Len(hist) :
        hist[s].end = "ReadError" => s = Len(hist) /\ outcome.kind # "Ok"

\* C7: with an unrecognized token construction fails, names the first such
\* token and yields no Flags value; otherwise it yields a Flags value whose
\* fields are true exactly for the tokens that occur.
C7_FlagsConstruction ==
    fl_outcome.kind \notin {"Running", "Idle"} =>
        LET bad == {i \in 1..Len(tokens) : tokens[i] \notin RecognizedTokens}
        IN  IF bad # {}
            THEN LET i == CHOOSE i \in bad : \A j \in bad : i <= j
                 IN  /\ fl_outcome.kind = "Panicked"
                     /\ fl_outcome.value = <<>>
                     /\ fl_outcome.message = <<"Unsupported flag ", tokens[i]>>
            ELSE /\ fl_outcome.kind = "Returned"
                 /\ Len(fl_outcome.value) = 1
                 /\ LET v == fl_outcome.value[1]
                    IN  /\ v.line_number <=> "-n" \in Range(tokens)
                        /\ v.files_with_matches <=> "-l" \in Range(tokens)
                        /\ v.ignore_case <=> "-i" \in Range(tokens)
                        /\ v.invert_match <=> "-v" \in Range(tokens)
                        /\ v.line_match <=> "-x" \in Range(tokens)

\* C7 witness: a duplicated token and another one, in an order other than
\* that of the fields, construct a value
C7_Witness ==
    /\ tokens = <<"-x", "-n", "-x">>
    /\ fl_outcome.kind = "Returned"

\* C8: the number attached to a result is the position of its line in its own
\* source; the counter is one more than the lines read from the open source,
\* kept or not, so it restarts at 1 with each source, and the numbers of one
\* source's results increase strictly.
C8_LineNumberIsPosition ==
    /\ pc = "while" => line_number = Len(hist[file_idx].lines) + 1
    /\ \A i \in 1..Len(prov) : prov[i].num = prov[i].pos
    /\ \A i, j \in 1..Len(prov) :
           i < j /\ prov[i].src = prov[j].src => prov[i].num < prov[j].num
    /\ flags.line_number /\ ~flags.files_with_matches =>
           \A i \in 1..Len(prov) :
               results[i] = (IF Len(files) > 1 THEN files[prov[i].src] \o <<":">> ELSE <<>>)
                            \o to_decimal(prov[i].pos) \o <<":">>
                            \o WithoutTrailingBlanks(RawOf(<<prov[i].src, prov[i].pos>>))

\* C8 witness: the second source's first line is dropped and its second line
\* is numbered 2, after a first source of two lines
C8_Witness ==
    /\ flags.line_number /\ ~flags.files_with_matches
    /\ Len(hist) = 2
    /\ Len(hist[1].lines) = 2
    /\ Len(hist[2].lines) = 2
    /\ ~hist[2].lines[1].kept
    /\ \E i \in 1..Len(prov) : prov[i].src = 2 /\ prov[i].num = 2
    /\ results[Len(results)] = <<"g", ":", "2", ":", "a">>

\* f(x0, f(x1, ... f(xn, init))): the item first, the accumulated value second
RECURSIVE ItemFirstFold(_, _, _)
ItemFirstFold(s, init, f) ==
    IF s = <<>> THEN init ELSE Apply(f, Head(s), ItemFirstFold(Tail(s), init, f))

\* f(f(... f(init, xn) ..., x1), x0): the accumulated value first, the item second
RECURSIVE AccFirstFold(_, _, _)
AccFirstFold(s, init, f) ==
    IF s = <<>> THEN init ELSE Apply(f, AccFirstFold(Tail(s), init, f), Head(s))

\* C9 as stated: foldr visits the items right to left and returns
\* f(x0, f(x1, ... f(xn, init))), init for the empty sequence.
C9_FoldrItemFirst ==
    op = "foldr" /\ lo_pc = "done" =>
        /\ visited = Rev(seq_in)
        /\ acc = ItemFirstFold(seq_in, initial, function)

\* C9 amended: foldr visits the items right to left and returns
\* f(f(... f(init, xn) ..., x1), x0), the combinator receiving the accumulated
\* value first and the item second; init for the empty sequence.
C9_FoldrAccFirst ==
    op = "foldr" /\ lo_pc = "done" =>
        /\ visited = Rev(seq_in)
        /\ acc = AccFirstFold(seq_in, initial, function)
        /\ (seq_in = <<>> => acc = initial)

\* C9 witness: foldr([1, 2, 3], 0, shift) returned 321
C9_Witness ==
    /\ op = "foldr" /\ lo_pc = "done"
    /\ seq_in = <<1, 2, 3>> /\ initial = 0 /\ function = "shift"
    /\ acc = 321

\* C10: reverse(s) yields the items of s in reverse order, and reverse of
\* what it yielded yields s again.
C10_ReverseInvolution ==
    op = "reverse" =>
        /\ pass = 1 => out = SubSeq(Rev(seq_in), 1, Len(out))
        /\ pass = 2 => first_out = Rev(seq_in)
        /\ pass = 2 /\ lo_pc = "done" => out = seq_in

\* C10 witness: [1, 2, 2] reversed is [2, 2, 1], and reversed again [1, 2, 2]
C10_Witness ==
    /\ op = "reverse" /\ lo_pc = "done"
    /\ seq_in = <<1, 2, 2>>
    /\ first_out = <<2, 2, 1>>
    /\ out = <<1, 2, 2>>

====
